---- MODULE Spec2Model ----
(***************************************************************************)
(* Selection store, result cache, storage facade and XML to HTML           *)
(* conversion of the table search view (DisplayView) of                    *)
(* table-construct-front.                                                  *)
(*                                                                         *)
(* Positions handed to the operations are 0-based as in the source; the    *)
(* sequences of the model are 1-based.                                     *)
(*                                                                         *)
(* A search result is modelled by its id and its similarity; html, xml and *)
(* metadata are functions of the id (the stored table) and carry no        *)
(* information of their own.  The similarity depends on the query, so it   *)
(* is modelled by the keyword that was sent.                               *)
(*                                                                         *)
(* data().selectedTableIds is written by syncSelectedTableIds,            *)
(* handleDownload and clearSelected and read by handleDownload only, right *)
(* after it wrote it: the value travels in the export request (download).  *)
(*                                                                         *)
(* The cache entry's timestamp (Date.now()) is written by handleSearch and   *)
(* never read; the view's cache entries are modelled without it, the       *)
(* facade's own specification saves entries with and without it.           *)
(*                                                                         *)
(* A uniqueId is `${tableId}_${Date.now()}_${random}`: it is modelled as   *)
(* the pair <<tableId, n>> where n is a suffix that no entry of the        *)
(* session carries at the time of the call.                                *)
(*                                                                         *)
(* The XML to HTML functions (xml2html, xml2htmlFragment,                  *)
(* xml2htmlFormatted) work on strings: an HTML string is modelled as a     *)
(* sequence of pieces (tag parts, characters, entity references) whose     *)
(* characters are given by Text, and an XML string by what typeof, trim()  *)
(* and DOMParser make of it.  indentSize and indentChar only scale the     *)
(* indentation: a formatted line is its pieces and its number of indents.  *)
(***************************************************************************)
EXTENDS Integers, Sequences, FiniteSets, TLC

\* ---------------------------------------------------------------- bounds
MaxSel == 2          \* longest selection / stored list the model builds
MaxResults == 1      \* longest result list a search returns
MaxInflight == 2     \* search requests awaiting a response at one time
MaxProposal == 2     \* longest array handed to updateTableOrder
MaxChildren == 2     \* most child nodes of the root of an XML document

TableIds == {"t1", "t2"}
Keywords == {"", "a", "b"}
TopKs == {1, 10}

\* ------------------------------------------------------------- constants
TABLE_IDS_KEY == "table_ids"
TABLE_ORDER_KEY == "table_order"
QUERY_RESULT_CACHE_KEY == "query_result_cache"
SELECTED_TABLES_ITEMS_KEY == "selected_tables_items"
StorageKeys == {TABLE_IDS_KEY, TABLE_ORDER_KEY, QUERY_RESULT_CACHE_KEY,
                SELECTED_TABLES_ITEMS_KEY}

VARIABLES
    store,             \* sessionStorage: key -> stored text, <<>> when absent
    localStore,        \* localStorage, likewise
    backend,           \* "ok", "full" (setItem throws), "denied" (access throws)
    searchKeyword,     \* data().searchKeyword
    topK,              \* data().topK
    tableList,         \* data().tableList, the current ranked result list
    selectedTables,    \* data().selectedTables, the in-memory snapshot
    inflight,          \* search requests awaiting their response, oldest first
    download,          \* the export request in flight, if any
    lastOp,            \* the operation performed last and what it returned
    beforeAdd,         \* the records as read just before the latest add
    conv               \* the latest call of the XML to HTML functions

vars == <<store, localStore, backend, searchKeyword, topK, tableList,
          selectedTables, inflight, download, lastOp, beforeAdd, conv>>

\* ------------------------------------------------------- sequence helpers
Range(s) == {s[i] : i \in 1..Len(s)}

Includes(s, x) == \E i \in 1..Len(s) : s[i] = x

\* Array.prototype.indexOf / findIndex, 0-based, -1 when absent
IndexOf(s, x) ==
    IF Includes(s, x)
    THEN (CHOOSE i \in 1..Len(s) : s[i] = x /\ \A j \in 1..(i-1) : s[j] # x) - 1
    ELSE -1

\* Array.prototype.splice(index, 1) on a 0-based index inside the array
Splice1(s, index) ==
    [j \in 1..(Len(s) - 1) |-> IF j <= index THEN s[j] ELSE s[j + 1]]

IdsOf(items) == [j \in 1..Len(items) |-> items[j].id]

Count(s, x) == Cardinality({i \in 1..Len(s) : s[i] = x})

SameMultiset(s, t) == \A x \in Range(s) \cup Range(t) : Count(s, x) = Count(t, x)

SeqsUpTo(S, n) == UNION {[1..k -> S] : k \in 0..n}

\* ------------------------------------------------------- storage facade
Absent == <<>>

\* JSON.stringify: the stored text of a value
Stringify(v) == <<v>>

\* JSON.parse of a stored text
Parse(text) == text[1]

\* the text setItem stores for undefined, which JSON.parse rejects: a text is
\* a sequence of length 1 when it is the JSON text of a value
NotJson == <<"undefined", "undefined">>

Parseable(text) == Len(text) = 1

\* getStorageInstance: null when touching window.sessionStorage throws
getStorageInstance == backend # "denied"

\* A JS value handed to setStorage, by what JSON.stringify makes of it:
\*   "json"      JSON data: its text parses back to an equal value
\*   "lossy"     an object with function-valued fields: they are left out
\*   "undefined" undefined: JSON.stringify returns undefined, no text
\*   "circular"  a cyclic structure: JSON.stringify throws
Json(v) == [class |-> "json", value |-> v]

\* what JSON.stringify keeps of a value it makes a text of
ToJSON(js) ==
    IF js.class = "lossy"
    THEN [f \in {g \in DOMAIN js.value : js.value[g] # "function"} |-> js.value[f]]
    ELSE js.value

StringifyThrows(js) == js.class = "circular"

\* the text setItem is given: String(undefined) when JSON.stringify gave none
StringValue(js) ==
    IF js.class = "undefined" THEN NotJson ELSE Stringify(ToJSON(js))

\* setStorage: the boolean it returns
setStorageReturns(js) ==
    getStorageInstance /\ ~StringifyThrows(js) /\ backend # "full"

\* setStorage of any JS value: the store after the call
setStorageValue(st, key, js) ==
    IF setStorageReturns(js) THEN [st EXCEPT ![key] = StringValue(js)] ELSE st

\* setStorage of JSON data, as the view and the table-id functions call it
setStorage(st, key, value) == setStorageValue(st, key, Json(value))

\* setStorage of JSON data: the boolean it returns
setStorageOk == setStorageReturns(Json(<<>>))


\* a getStorage that never finds the key
getStorageDefault(st, key, defaultValue) == defaultValue

\* getStorage: the default when the storage is out of reach, the key absent
\* or JSON.parse throws
getStorage(st, key, defaultValue) ==
    IF ~getStorageInstance THEN defaultValue
    ELSE IF st[key] = Absent THEN defaultValue
    ELSE IF ~Parseable(st[key]) THEN defaultValue
    ELSE Parse(st[key])

removeStorage(st, key) ==
    IF ~getStorageInstance THEN st ELSE [st EXCEPT ![key] = Absent]

\* removeStorage, clearStorage: the boolean they return
removeStorageReturns == getStorageInstance

clearStorage(st) ==
    IF ~getStorageInstance THEN st ELSE [k \in DOMAIN st |-> Absent]

\* a hasStorage that does not look at the storage instance
hasStorageAnyway(st, key) == st[key] # Absent

hasStorage(st, key) == getStorageInstance /\ st[key] # Absent

\* getAllKeys: storage.key(0 .. length-1); the order is the browser's
getAllKeys(st) ==
    IF ~getStorageInstance THEN {} ELSE {k \in DOMAIN st : st[k] # Absent}

getStorageSize(st) == Cardinality(getAllKeys(st))

getAllTableIds(st) == getStorage(st, TABLE_IDS_KEY, <<>>)

getTableOrder(st) == getStorage(st, TABLE_ORDER_KEY, <<>>)

getStoredItems(st) == getStorage(st, SELECTED_TABLES_ITEMS_KEY, <<>>)

\* updateTableOrder with the missing ids taken from the stored order
updateTableOrderFromOrder(st, orderArray) ==
    LET ids == getAllTableIds(st)
        order == getStorage(st, TABLE_ORDER_KEY, <<>>)
        validOrder == SelectSeq(orderArray, LAMBDA id : Includes(ids, id))
        missingIds == SelectSeq(order, LAMBDA id : ~Includes(orderArray, id))
    IN  setStorage(st, TABLE_ORDER_KEY, validOrder \o missingIds)

\* updateTableOrder(orderArray): the store after the call
updateTableOrder(st, orderArray) ==
    LET ids == getAllTableIds(st)
        validOrder == SelectSeq(orderArray, LAMBDA id : Includes(ids, id))
        missingIds == SelectSeq(ids, LAMBDA id : ~Includes(orderArray, id))
        finalOrder == validOrder \o missingIds
    IN  setStorage(st, TABLE_ORDER_KEY, finalOrder)

\* a clearTableIds that removes the result cache as well
clearTableIdsAndCache(st) ==
    removeStorage(removeStorage(removeStorage(st, TABLE_IDS_KEY), TABLE_ORDER_KEY),
                  QUERY_RESULT_CACHE_KEY)

clearTableIds(st) ==
    removeStorage(removeStorage(st, TABLE_IDS_KEY), TABLE_ORDER_KEY)

\* ------------------------------------------------------------ uniqueIds
\* suffixes carried by some entry of the session, in memory or stored
UsedSuffixes ==
    {selectedTables[i].uniqueId[2] : i \in 1..Len(selectedTables)}
    \cup (IF store[SELECTED_TABLES_ITEMS_KEY] = Absent THEN {}
          ELSE LET it == Parse(store[SELECTED_TABLES_ITEMS_KEY])
               IN  {it[i].uniqueId[2] : i \in 1..Len(it)})

\* the k-th suffix (k >= 1) that no entry carries
RECURSIVE NthFree(_, _, _)
NthFree(used, k, from) ==
    IF from \in used THEN NthFree(used, k, from + 1)
    ELSE IF k = 1 THEN from
    ELSE NthFree(used, k - 1, from + 1)

FreshUniqueId(tableId, k) == <<tableId, NthFree(UsedSuffixes, k, 1)>>

\* the object literal built from a result (addToSelected, syncSelectedTableIds)
TableItem(table, k) ==
    [uniqueId |-> FreshUniqueId(table.id, k), id |-> table.id,
     similarity |-> table.similarity]

\* a lookup that falls back to the first result
FindTableOrFirst(tl, tableId) ==
    IF Includes(IdsOf(tl), tableId) THEN IndexOf(IdsOf(tl), tableId) + 1
    ELSE IF Len(tl) > 0 THEN 1 ELSE 0

\* this.tableList.find(t => t.id === tableId), as a 1-based position, 0 if none
FindTable(tl, tableId) == IndexOf(IdsOf(tl), tableId) + 1

NoSnapshot ==
    [valid |-> FALSE, ids |-> <<>>, order |-> <<>>, items |-> <<>>,
     selected |-> <<>>]

\* idList, orderList and itemList as the facade reads them, and the snapshot
Records(st, sel) ==
    [valid |-> TRUE, ids |-> getAllTableIds(st), order |-> getTableOrder(st),
     items |-> getStoredItems(st), selected |-> sel]

\* what a key holds, whether or not the facade can read it
Raw(st, key) == IF st[key] = Absent THEN <<>> ELSE Parse(st[key])

\* room left in every list an add appends to
RoomToAdd ==
    /\ Len(selectedTables) < MaxSel
    /\ Len(Raw(store, SELECTED_TABLES_ITEMS_KEY)) < MaxSel
    /\ Len(Raw(store, TABLE_IDS_KEY)) < MaxSel
    /\ Len(Raw(store, TABLE_ORDER_KEY)) < MaxSel

\* the log entry of one call: its name, whether it ran past its early
\* returns, and the value it returned
Op(name, done, ret) == [op |-> name, done |-> done, ret |-> ret]

\* ---------------------------------------------------------- XML to HTML
\* A DOM node as the functions below read it. textContent is a sequence of
\* characters; only text, CDATA and comment nodes are asked for it.
Node(nodeType, tagName, attributes, textContent, childNodes) ==
    [nodeType |-> nodeType, tagName |-> tagName, attributes |-> attributes,
     textContent |-> textContent, childNodes |-> childNodes]

\* null, as parseXML returns it
Null == Node("null", "", <<>>, <<>>, <<>>)

\* tag names of the documents; XML keeps their case
TagNames == {"td", "BR", "parsererror"}

\* String.prototype.toLowerCase on the tag names
toLowerCase(tagName) == IF tagName = "BR" THEN "br" ELSE tagName

\* text of text nodes: blank, plain, and padded with a character to escape
TextSamples == {<<" ">>, <<"x">>, <<" ", "<">>}

\* the attributes an element of that name carries
AttributesOf(tagName) ==
    IF tagName = "td" THEN <<[name |-> "title", value |-> <<"\"">>]>> ELSE <<>>

ElementsOver(childLists) ==
    {Node("element", n, AttributesOf(n), <<>>, c) : n \in TagNames, c \in childLists}

\* nodes without children: text, CDATA section, comment, empty element
Leaves ==
    {Node("text", "", <<>>, t, <<>>) : t \in TextSamples}
        \cup {Node("cdata", "", <<>>, <<"<">>, <<>>)}
        \cup {Node("comment", "", <<>>, <<"&">>, <<>>)}
        \cup ElementsOver({<<>>})

\* children of the root: a leaf or an element around one leaf
Inner == Leaves \cup ElementsOver({<<l>> : l \in Leaves})

\* a parser never leaves two text nodes side by side
Normalized(childNodes) ==
    \A i \in 1..(Len(childNodes) - 1) :
        ~(childNodes[i].nodeType = "text" /\ childNodes[i + 1].nodeType = "text")

\* documentElement of a parsed document: one root element
Documents ==
    ElementsOver({c \in SeqsUpTo(Inner, MaxChildren) : Normalized(c)})

\* what DOMParser returns for text that is not well formed: a document with
\* a parsererror element, as the root or inside what was parsed so far
ErrorDocuments ==
    LET parsererror ==
            Node("element", "parsererror", <<>>, <<>>,
                 <<Node("text", "", <<>>, <<"x">>, <<>>)>>)
    IN  {parsererror,
         Node("element", "td", AttributesOf("td"), <<>>, <<parsererror>>)}

\* The xmlString argument: kind is what typeof and trim() see of it, parser
\* and doc are what new DOMParser().parseFromString does with it, wellFormed
\* whether the text is well-formed XML.
XmlString(kind, parser, wellFormed, doc) ==
    [kind |-> kind, parser |-> parser, wellFormed |-> wellFormed, doc |-> doc]

XmlStrings ==
    {XmlString(k, "returns", FALSE, Null) : k \in {"number", "empty", "blank"}}
        \cup {XmlString("text", "throws", FALSE, Null)}
        \cup {XmlString("text", "returns", FALSE, d) : d \in ErrorDocuments}
        \cup {XmlString("text", "returns", TRUE, d) : d \in Documents}

\* tag names after toLowerCase, the keys of a tagMapping
LowerNames == {toLowerCase(n) : n \in TagNames}

Options(preserveAttributes, preserveTextNodes, tagMapping, wrapperTag) ==
    [preserveAttributes |-> preserveAttributes,
     preserveTextNodes |-> preserveTextNodes,
     tagMapping |-> tagMapping, wrapperTag |-> wrapperTag]

\* tagMapping = {}: no key has an entry
NoMapping == [n \in LowerNames |-> ""]

\* tagMapping = { td: 'br', br: 'p' }
SomeMapping ==
    [n \in LowerNames |-> IF n = "td" THEN "br" ELSE IF n = "br" THEN "p" ELSE ""]

\* options = {}
DefaultOptions == Options(TRUE, TRUE, NoMapping, "")

\* the defaults, each option changed alone, and all changed at once
OptionsGiven ==
    {DefaultOptions,
     Options(FALSE, TRUE, NoMapping, ""),
     Options(TRUE, FALSE, NoMapping, ""),
     Options(TRUE, TRUE, SomeMapping, ""),
     Options(TRUE, TRUE, NoMapping, "div"),
     Options(FALSE, FALSE, SomeMapping, "div")}

\* A piece of the HTML string and the part of the input it was made from:
\*   open    "<" v            attr    " " v "=" and a double quote
\*   gt      ">"              quote   a double quote
\*   selfend " />"            close   "</" v ">"
\*   cmtopen "<!--"           cmtend  "-->"
\*   chr     the character v  ent     "&" v ";"
\* from is "tag", "text", "attribute", "cdata" or "comment".
Atom(t, v, from) == [t |-> t, v |-> v, from |-> from]

\* the characters of a piece; a name counts as one character
Text(atom) ==
    CASE atom.t = "open" -> <<"<", atom.v>>
      [] atom.t = "attr" -> <<" ", atom.v, "=", "\"">>
      [] atom.t = "quote" -> <<"\"">>
      [] atom.t = "gt" -> <<">">>
      [] atom.t = "selfend" -> <<" ", "/", ">">>
      [] atom.t = "close" -> <<"<", "/", atom.v, ">">>
      [] atom.t = "cmtopen" -> <<"<", "!", "-", "-">>
      [] atom.t = "cmtend" -> <<"-", "-", ">">>
      [] atom.t = "ent" -> <<"&", atom.v, ";">>
      [] OTHER -> <<atom.v>>

RECURSIVE Flat(_)
\* the characters of a string of pieces
Flat(atoms) == IF atoms = <<>> THEN <<>> ELSE Text(Head(atoms)) \o Flat(Tail(atoms))

SpecialChars == {"&", "<", ">", "\"", "'"}

\* the map of escapeHtml
EscapeMap(char) ==
    CASE char = "&" -> "amp"
      [] char = "<" -> "lt"
      [] char = ">" -> "gt"
      [] char = "\"" -> "quot"
      [] char = "'" -> "#39"

\* text made part of the output as it is
Verbatim(text, from) == [i \in 1..Len(text) |-> Atom("chr", text[i], from)]

\* an escapeHtml that replaces nothing
escapeHtmlNothing(text, from) == Verbatim(text, from)

\* escapeHtml(text), for text taken from a text node or an attribute value
escapeHtml(text, from) ==
    [i \in 1..Len(text) |->
        IF text[i] \in SpecialChars
        THEN Atom("ent", EscapeMap(text[i]), from)
        ELSE Atom("chr", text[i], from)]

RECURSIVE TrimStart(_)
TrimStart(text) ==
    IF text # <<>> /\ Head(text) = " " THEN TrimStart(Tail(text)) ELSE text

RECURSIVE TrimEnd(_)
TrimEnd(text) ==
    IF text # <<>> /\ text[Len(text)] = " "
    THEN TrimEnd(SubSeq(text, 1, Len(text) - 1))
    ELSE text

\* String.prototype.trim
Trim(text) == TrimEnd(TrimStart(text))

RECURSIVE HasElement(_, _)
\* querySelector(tagName) finds an element in or under the node
HasElement(node, tagName) ==
    \/ node.nodeType = "element" /\ node.tagName = tagName
    \/ \E i \in 1..Len(node.childNodes) : HasElement(node.childNodes[i], tagName)

\* a parseXML that does not look for a parsererror element
parseXMLUnchecked(xmlString) ==
    IF xmlString.kind # "text" \/ xmlString.parser = "throws" THEN Null
    ELSE xmlString.doc

\* parseXML: the document element, or null
parseXML(xmlString) ==
    IF xmlString.kind = "number" \/ xmlString.kind \in {"empty", "blank"} THEN Null
    ELSE IF xmlString.parser = "throws" THEN Null
    ELSE IF HasElement(xmlString.doc, "parsererror") THEN Null
    ELSE xmlString.doc

\* tagMapping[tagName] || tagName || 'div'
htmlTagName(node, options) ==
    LET tagName == toLowerCase(node.tagName)
    IN  IF options.tagMapping[tagName] # "" THEN options.tagMapping[tagName]
        ELSE IF tagName # "" THEN tagName
        ELSE "div"

selfClosingTags ==
    {"br", "hr", "img", "input", "meta", "link", "area", "base", "col", "embed",
     "source", "track", "wbr"}

\* an element closes itself whenever its name is a self-closing one
SelfClosesByName(name, hasChildren) == name \in selfClosingTags

\* selfClosingTags.includes(htmlTagName) && !hasChildren
SelfCloses(name, hasChildren) == name \in selfClosingTags /\ ~hasChildren

RECURSIVE attributesToHtml(_, _)
\* the attribute loop of nodeToHtml, from attribute i on
attributesToHtml(attributes, i) ==
    IF i > Len(attributes) THEN <<>>
    ELSE <<Atom("attr", attributes[i].name, "tag")>>
             \o escapeHtml(attributes[i].value, "attribute")
             \o <<Atom("quote", "\"", "tag")>>
             \o attributesToHtml(attributes, i + 1)

\* "<name" and the attributes: the element's tag before it is closed
TagStart(node, options) ==
    <<Atom("open", htmlTagName(node, options), "tag")>>
        \o (IF options.preserveAttributes
            THEN attributesToHtml(node.attributes, 1)
            ELSE <<>>)

RECURSIVE nodeToHtml(_, _)
RECURSIVE childrenToHtml(_, _, _)
\* the child loop of nodeToHtml, from child i on
childrenToHtml(childNodes, options, i) ==
    IF i > Len(childNodes) THEN <<>>
    ELSE nodeToHtml(childNodes[i], options)
             \o childrenToHtml(childNodes, options, i + 1)

nodeToHtml(node, options) ==
    CASE node.nodeType = "text" ->
             IF ~options.preserveTextNodes THEN <<>>
             ELSE escapeHtml(Trim(node.textContent), "text")
      [] node.nodeType = "cdata" -> Verbatim(node.textContent, "cdata")
      [] node.nodeType = "element" ->
             LET childrenHtml == childrenToHtml(node.childNodes, options, 1)
                 hasChildren == childrenHtml # <<>>
             IN  IF SelfCloses(htmlTagName(node, options), hasChildren)
                 THEN TagStart(node, options) \o <<Atom("selfend", " />", "tag")>>
                 ELSE TagStart(node, options)
                          \o <<Atom("gt", ">", "tag")>>
                          \o childrenHtml
                          \o <<Atom("close", htmlTagName(node, options), "tag")>>
      [] node.nodeType = "comment" ->
             <<Atom("cmtopen", "<!--", "tag")>>
                 \o Verbatim(node.textContent, "comment")
                 \o <<Atom("cmtend", "-->", "tag")>>
      [] OTHER -> <<>>

\* `<${wrapperTag}>${html}</${wrapperTag}>`
Wrapped(wrapperTag, html) ==
    <<Atom("open", wrapperTag, "tag"), Atom("gt", ">", "tag")>>
        \o html
        \o <<Atom("close", wrapperTag, "tag")>>

xml2html(xmlString, options) ==
    IF xmlString.kind # "text" THEN <<>>
    ELSE LET xmlDoc == parseXML(xmlString)
         IN  IF xmlDoc = Null THEN <<>>
             ELSE LET html == nodeToHtml(xmlDoc, options)
                  IN  IF options.wrapperTag # ""
                      THEN Wrapped(options.wrapperTag, html)
                      ELSE html

\* an xml2htmlFragment that converts the first child only
xml2htmlFragmentFirstChild(xmlString, options) ==
    IF xmlString.kind # "text" THEN <<>>
    ELSE LET xmlDoc == parseXML(xmlString)
         IN  IF xmlDoc = Null \/ xmlDoc.childNodes = <<>> THEN <<>>
             ELSE nodeToHtml(xmlDoc.childNodes[1], options)

xml2htmlFragment(xmlString, options) ==
    IF xmlString.kind # "text" THEN <<>>
    ELSE LET xmlDoc == parseXML(xmlString)
         IN  IF xmlDoc = Null THEN <<>>
             ELSE childrenToHtml(xmlDoc.childNodes, options, 1)

RECURSIVE StartsWith(_, _)
\* String.prototype.startsWith
StartsWith(text, prefix) ==
    \/ prefix = <<>>
    \/ /\ text # <<>>
       /\ Head(text) = Head(prefix)
       /\ StartsWith(Tail(text), Tail(prefix))

\* String.prototype.endsWith
EndsWith(text, suffix) ==
    /\ Len(text) >= Len(suffix)
    /\ SubSeq(text, Len(text) - Len(suffix) + 1, Len(text)) = suffix

RECURSIVE SplitLines(_)
\* html.replace(/></g, '>\n<').split('\n'): a new line starts between a piece
\* that ends with ">" and a piece that starts with "<"
SplitLines(html) ==
    LET breaks == {i \in 1..(Len(html) - 1) :
                      /\ Text(html[i])[Len(Text(html[i]))] = ">"
                      /\ Head(Text(html[i + 1])) = "<"}
    IN  IF breaks = {} THEN <<html>>
        ELSE LET k == CHOOSE i \in breaks : \A j \in breaks : i <= j
             IN  <<SubSeq(html, 1, k)>> \o SplitLines(SubSeq(html, k + 1, Len(html)))

\* an indentLevel - 1 that is not held at 0
DedentBelowZero(indentLevel) == indentLevel - 1

\* Math.max(0, indentLevel - 1)
Dedent(indentLevel) == IF indentLevel - 1 > 0 THEN indentLevel - 1 ELSE 0

RECURSIVE formatLines(_, _, _)
\* the map and filter over the lines, from line i on: every line that is not
\* empty with the number of indents put before it
formatLines(lines, i, indentLevel) ==
    IF i > Len(lines) THEN <<>>
    ELSE LET trimmed == Trim(Flat(lines[i]))
             closing == StartsWith(trimmed, <<"<", "/">>)
             level == IF closing THEN Dedent(indentLevel) ELSE indentLevel
             opening == /\ StartsWith(trimmed, <<"<">>)
                        /\ ~closing
                        /\ ~EndsWith(trimmed, <<"/", ">">>)
         IN  IF trimmed = <<>> THEN formatLines(lines, i + 1, indentLevel)
             ELSE <<[level |-> level, atoms |-> lines[i]]>>
                      \o formatLines(lines, i + 1,
                                     IF opening THEN level + 1 ELSE level)

\* xml2htmlFormatted: the lines of the result, in order
xml2htmlFormatted(xmlString, options) ==
    LET html == xml2html(xmlString, options)
    IN  IF html = <<>> THEN <<>> ELSE formatLines(SplitLines(html), 1, 0)

\* one call of the conversion functions: the arguments, the function called
\* and what it returned
Conversion(xmlString, options, fn, html, lines) ==
    [xmlString |-> xmlString, options |-> options, fn |-> fn, html |-> html,
     lines |-> lines]

\* no conversion has run
NoConversion ==
    Conversion(XmlString("empty", "returns", FALSE, Null), DefaultOptions, "none",
               <<>>, <<>>)

\* ------------------------------------------------------------------ Init
Init ==
    /\ store = [k \in StorageKeys |-> Absent]
    /\ localStore = [k \in StorageKeys |-> Absent]
    /\ backend = "ok"
    /\ searchKeyword = ""
    /\ topK = 10
    /\ tableList = <<>>
    /\ selectedTables = <<>>
    /\ inflight = <<>>
    /\ download = <<>>
    /\ lastOp = Op("mounted", TRUE, "undefined")
    /\ beforeAdd = NoSnapshot
    /\ conv = NoConversion

\* ------------------------------------------------- syncSelectedTableIds
\* a walk of order that binds every slot to the first stored entry with its id
RECURSIVE BindOrderFirst(_, _, _, _, _)
BindOrderFirst(order, storedItems, i, usedUniqueIds, orderedItems) ==
    IF i > Len(order) THEN orderedItems
    ELSE LET items == SelectSeq(storedItems, LAMBDA it : it.id = order[i])
         IN  IF Len(items) > 0
             THEN BindOrderFirst(order, storedItems, i + 1, usedUniqueIds,
                                 Append(orderedItems, items[1]))
             ELSE BindOrderFirst(order, storedItems, i + 1, usedUniqueIds,
                                 orderedItems)

\* equal-length branch: walk order, bind each id to the first stored entry
\* with that id whose uniqueId is unused, else to the first entry with that id
RECURSIVE BindOrder(_, _, _, _, _)
BindOrder(order, storedItems, i, usedUniqueIds, orderedItems) ==
    IF i > Len(order) THEN orderedItems
    ELSE LET items == SelectSeq(storedItems, LAMBDA it : it.id = order[i])
             free == SelectSeq(items, LAMBDA it : it.uniqueId \notin usedUniqueIds)
         IN  IF Len(free) > 0
             THEN BindOrder(order, storedItems, i + 1,
                            usedUniqueIds \cup {free[1].uniqueId},
                            Append(orderedItems, free[1]))
             ELSE IF Len(items) > 0
             THEN BindOrder(order, storedItems, i + 1,
                            usedUniqueIds \cup {items[1].uniqueId},
                            Append(orderedItems, items[1]))
             ELSE BindOrder(order, storedItems, i + 1, usedUniqueIds, orderedItems)

\* a rebuild that gives up at the first id without a matching result
RECURSIVE RebuildUntilMiss(_, _, _, _, _)
RebuildUntilMiss(order, tl, i, k, acc) ==
    IF i > Len(order) THEN acc
    ELSE LET p == FindTable(tl, order[i])
         IN  IF p > 0
             THEN RebuildUntilMiss(order, tl, i + 1, k + 1,
                                   Append(acc, TableItem(tl[p], k)))
             ELSE acc

\* order-only branch: order.map(... find in tableList ...).filter(non-null)
RECURSIVE RebuildFromResults(_, _, _, _, _)
RebuildFromResults(order, tl, i, k, acc) ==
    IF i > Len(order) THEN acc
    ELSE LET p == FindTable(tl, order[i])
         IN  IF p > 0
             THEN RebuildFromResults(order, tl, i + 1, k + 1,
                                     Append(acc, TableItem(tl[p], k)))
             ELSE RebuildFromResults(order, tl, i + 1, k, acc)

\* syncSelectedTableIds(): the store and the in-memory snapshot after the call
syncSelectedTableIds(st, tl) ==
    LET storedItems == getStoredItems(st)
        order == getTableOrder(st)
    IN  IF Len(storedItems) > 0 /\ Len(storedItems) = Len(order)
        THEN [store |-> st,
              selectedTables |-> BindOrder(order, storedItems, 1, {}, <<>>)]
        ELSE IF Len(storedItems) > 0
        THEN LET newOrder == IdsOf(storedItems)
             IN  [store |-> updateTableOrder(st, newOrder),
                  selectedTables |-> storedItems]
        ELSE IF Len(order) > 0
        THEN LET rebuilt == RebuildFromResults(order, tl, 1, 1, <<>>)
             IN  [store |-> IF Len(rebuilt) > 0
                            THEN setStorage(st, SELECTED_TABLES_ITEMS_KEY, rebuilt)
                            ELSE st,
                  selectedTables |-> rebuilt]
        ELSE [store |-> st, selectedTables |-> <<>>]

\* a save that keeps the fields of the entry it finds and the new one lacks
cacheQueryResultMerged(st, cacheData) ==
    LET old == getStorage(st, QUERY_RESULT_CACHE_KEY, cacheData)
    IN  setStorage(st, QUERY_RESULT_CACHE_KEY,
                   [f \in DOMAIN old \cup DOMAIN cacheData |->
                       IF f \in DOMAIN cacheData THEN cacheData[f] ELSE old[f]])

\* cacheQueryResult(cacheData)
cacheQueryResult(st, cacheData) == setStorage(st, QUERY_RESULT_CACHE_KEY, cacheData)

NoCache == [keyword |-> "", topK |-> 0, results |-> <<>>]

\* getStorage(QUERY_RESULT_CACHE_KEY, null): NoCache stands for null
getCache(st) ==
    IF getStorageInstance /\ st[QUERY_RESULT_CACHE_KEY] # Absent
    THEN Parse(st[QUERY_RESULT_CACHE_KEY]) ELSE NoCache

hasCache(st) == getStorageInstance /\ st[QUERY_RESULT_CACHE_KEY] # Absent

\* ---------------------------------------------------------------- actions
Undefined == "undefined"

\* v-model on the keyword input, followed by watch.searchKeyword
SetKeyword(k) ==
    /\ k # searchKeyword
    /\ searchKeyword' = k
    /\ store' = IF k # "" /\ Len(tableList) > 0 /\ hasCache(store)
                THEN cacheQueryResult(store, [getCache(store) EXCEPT !.keyword = k])
                ELSE store
    /\ lastOp' = Op("setKeyword", TRUE, Undefined)
    /\ beforeAdd' = NoSnapshot
    /\ UNCHANGED <<conv, localStore, backend, topK, tableList, selectedTables, inflight, download>>

\* v-model on the result-count input, followed by watch.topK
SetTopK(n) ==
    /\ n # topK
    /\ topK' = n
    /\ store' = IF Len(tableList) > 0 /\ hasCache(store)
                THEN cacheQueryResult(store, [getCache(store) EXCEPT !.topK = n])
                ELSE store
    /\ lastOp' = Op("setTopK", TRUE, Undefined)
    /\ beforeAdd' = NoSnapshot
    /\ UNCHANGED <<conv, localStore, backend, searchKeyword, tableList, selectedTables,
                   inflight, download>>

\* handleSearch up to its await
handleSearch ==
    /\ beforeAdd' = NoSnapshot
    /\ IF searchKeyword = ""
       THEN /\ lastOp' = Op("handleSearch", FALSE, Undefined)
            /\ UNCHANGED <<conv, store, localStore, backend, searchKeyword, topK, tableList,
                           selectedTables, inflight, download>>
       ELSE /\ Len(inflight) < MaxInflight
            /\ lastOp' = Op("handleSearch", TRUE, Undefined)
            /\ tableList' = <<>>
            /\ inflight' = Append(inflight,
                   [query |-> searchKeyword, top_k |-> topK, superseded |-> FALSE])
            /\ UNCHANGED <<conv, store, localStore, backend, searchKeyword, topK, selectedTables,
                           download>>

\* the ranked lists the search endpoint may answer a request with
Replies(r) ==
    {[j \in 1..Len(ids) |-> [id |-> ids[j], similarity |-> r.query]] :
        ids \in {s \in SeqsUpTo(TableIds, MaxResults) :
                    /\ Len(s) <= r.top_k
                    /\ \A i, j \in 1..Len(s) : i # j => s[i] # s[j]}}

\* the requests left when the i-th is answered; with applied, the requests
\* issued before it are marked: a newer response than theirs has been applied
Answered(i, applied) ==
    [j \in 1..(Len(inflight) - 1) |->
        IF j < i
        THEN [inflight[j] EXCEPT !.superseded = @ \/ applied]
        ELSE inflight[j + 1]]

\* handleSearch after its await, the request resolved
searchResolved(i, response) ==
    /\ i \in 1..Len(inflight)
    /\ inflight' = Answered(i, TRUE)
    /\ tableList' = response
    /\ LET cached == cacheQueryResult(store,
                        [keyword |-> searchKeyword, topK |-> topK,
                         results |-> response])
           synced == syncSelectedTableIds(cached, response)
       IN  /\ store' = synced.store
           /\ selectedTables' = synced.selectedTables
    /\ lastOp' = Op("searchResolved", TRUE, Undefined)
    /\ beforeAdd' = NoSnapshot
    /\ UNCHANGED <<conv, localStore, backend, searchKeyword, topK, download>>

\* handleSearch after its await, the request rejected
searchRejected(i) ==
    /\ i \in 1..Len(inflight)
    /\ inflight' = Answered(i, FALSE)
    /\ lastOp' = Op("searchRejected", TRUE, Undefined)
    /\ beforeAdd' = NoSnapshot
    /\ UNCHANGED <<conv, store, localStore, backend, searchKeyword, topK, tableList,
                   selectedTables, download>>

\* an add that touches the in-memory selection only once the entry is stored
addToSelectedIfStored(tableId) ==
    /\ IF tableId = "" \/ FindTable(tableList, tableId) = 0
       THEN /\ lastOp' = Op("addToSelected", FALSE, Undefined)
            /\ beforeAdd' = NoSnapshot
            /\ UNCHANGED <<store, selectedTables>>
       ELSE /\ RoomToAdd
            /\ lastOp' = Op("addToSelected", TRUE, Undefined)
            /\ LET table == tableList[FindTable(tableList, tableId)]
                   tableItem == TableItem(table, 1)
                   st1 == setStorage(store, SELECTED_TABLES_ITEMS_KEY,
                                     Append(getStoredItems(store), tableItem))
                   st2 == setStorage(st1, TABLE_IDS_KEY,
                                     Append(getAllTableIds(st1), tableId))
                   st3 == updateTableOrder(st2, Append(getTableOrder(st2), tableId))
               IN  /\ selectedTables' = IF setStorageOk
                                         THEN Append(selectedTables, tableItem)
                                         ELSE selectedTables
                   /\ store' = st3
            /\ beforeAdd' = Records(store, selectedTables)
    /\ UNCHANGED <<conv, localStore, backend, searchKeyword, topK, tableList, inflight,
                   download>>

addToSelected(tableId) ==
    /\ IF tableId = "" \/ FindTable(tableList, tableId) = 0
       THEN /\ lastOp' = Op("addToSelected", FALSE, Undefined)
            /\ beforeAdd' = NoSnapshot
            /\ UNCHANGED <<store, selectedTables>>
       ELSE /\ RoomToAdd
            /\ lastOp' = Op("addToSelected", TRUE, Undefined)
            /\ LET table == tableList[FindTable(tableList, tableId)]
                   tableItem == TableItem(table, 1)
                   st1 == setStorage(store, SELECTED_TABLES_ITEMS_KEY,
                                     Append(getStoredItems(store), tableItem))
                   st2 == setStorage(st1, TABLE_IDS_KEY,
                                     Append(getAllTableIds(st1), tableId))
                   st3 == updateTableOrder(st2, Append(getTableOrder(st2), tableId))
               IN  /\ selectedTables' = Append(selectedTables, tableItem)
                   /\ store' = st3
            /\ beforeAdd' = Records(store, selectedTables)
    /\ UNCHANGED <<conv, localStore, backend, searchKeyword, topK, tableList, inflight, download>>

removeSelectedByIndex(index) ==
    /\ lastOp' = Op("removeSelectedByIndex",
                    ~(index < 0 \/ index >= Len(selectedTables)), Undefined)
    /\ beforeAdd' = NoSnapshot
    /\ IF index < 0 \/ index >= Len(selectedTables)
       THEN UNCHANGED <<store, selectedTables>>
       ELSE LET tableItem == selectedTables[index + 1]
                storedItems == getStoredItems(store)
                itemIndex == IndexOf([j \in 1..Len(storedItems) |->
                                         storedItems[j].uniqueId],
                                     tableItem.uniqueId)
                st1 == IF itemIndex # -1
                       THEN setStorage(store, SELECTED_TABLES_ITEMS_KEY,
                                       Splice1(storedItems, itemIndex))
                       ELSE store
                order == getTableOrder(st1)
                st2 == IF index < Len(order)
                       THEN updateTableOrder(st1, Splice1(order, index))
                       ELSE st1
                ids == getAllTableIds(st2)
                tableIdIndex == IndexOf(ids, tableItem.id)
                st3 == IF index < Len(order) /\ tableIdIndex # -1
                       THEN setStorage(st2, TABLE_IDS_KEY, Splice1(ids, tableIdIndex))
                       ELSE st2
            IN  /\ selectedTables' = Splice1(selectedTables, index)
                /\ store' = st3
    /\ UNCHANGED <<conv, localStore, backend, searchKeyword, topK, tableList, inflight, download>>

\* the array after the element at 0-based position from is dropped at to
Move(s, from, to) ==
    LET x == s[from + 1]
        rest == Splice1(s, from)
    IN  [j \in 1..Len(s) |-> IF j <= to THEN rest[j]
                              ELSE IF j = to + 1 THEN x ELSE rest[j - 1]]

\* a drag of the draggable list (v-model) and its @end handler onDragEnd
onDragEnd(from, to) ==
    /\ from \in 0..(Len(selectedTables) - 1)
    /\ to \in 0..(Len(selectedTables) - 1)
    /\ LET moved == Move(selectedTables, from, to)
       IN  /\ selectedTables' = moved
           /\ store' = setStorage(updateTableOrder(store, IdsOf(moved)),
                                  SELECTED_TABLES_ITEMS_KEY, moved)
    /\ lastOp' = Op("onDragEnd", TRUE, Undefined)
    /\ beforeAdd' = NoSnapshot
    /\ UNCHANGED <<conv, localStore, backend, searchKeyword, topK, tableList, inflight, download>>

\* a clear that leaves the stored entries in place
clearSelectedKeepItems ==
    /\ store' = clearTableIds(store)
    /\ selectedTables' = <<>>
    /\ lastOp' = Op("clearSelected", TRUE, Undefined)
    /\ beforeAdd' = NoSnapshot
    /\ UNCHANGED <<conv, localStore, backend, searchKeyword, topK, tableList, inflight, download>>

\* clearSelected with the confirmation accepted
clearSelected ==
    /\ store' = setStorage(clearTableIds(store), SELECTED_TABLES_ITEMS_KEY, <<>>)
    /\ selectedTables' = <<>>
    /\ lastOp' = Op("clearSelected", TRUE, Undefined)
    /\ beforeAdd' = NoSnapshot
    /\ UNCHANGED <<conv, localStore, backend, searchKeyword, topK, tableList, inflight, download>>

\* a page load: data(), then mounted() = loadSelectedTables, loadCachedQueryResult
mounted ==
    /\ LET first == syncSelectedTableIds(store, <<>>)
           cached == getCache(first.store)
           restore == hasCache(first.store) /\ Len(cached.results) > 0
           second == syncSelectedTableIds(first.store, cached.results)
       IN  IF restore
           THEN /\ searchKeyword' = cached.keyword
                /\ topK' = IF cached.topK = 0 THEN 10 ELSE cached.topK
                /\ tableList' = cached.results
                /\ store' = second.store
                /\ selectedTables' = second.selectedTables
           ELSE /\ searchKeyword' = ""
                /\ topK' = 10
                /\ tableList' = <<>>
                /\ store' = first.store
                /\ selectedTables' = first.selectedTables
    /\ inflight' = <<>>
    /\ download' = <<>>
    /\ lastOp' = Op("mounted", TRUE, Undefined)
    /\ beforeAdd' = NoSnapshot
    /\ UNCHANGED <<conv, localStore, backend, localStore>>

\* handleDownload up to its await
handleDownload ==
    /\ download = <<>>
    /\ download' = IF Len(selectedTables) = 0 THEN <<>>
                   ELSE <<IdsOf(selectedTables)>>
    /\ lastOp' = Op("handleDownload", Len(selectedTables) > 0, Undefined)
    /\ beforeAdd' = NoSnapshot
    /\ UNCHANGED <<conv, store, localStore, backend, searchKeyword, topK, tableList,
                   selectedTables, inflight>>

\* handleDownload after its await, the export succeeded
downloadResolved ==
    /\ download # <<>>
    /\ download' = <<>>
    /\ store' = clearTableIds(store)
    /\ selectedTables' = <<>>
    /\ lastOp' = Op("downloadResolved", TRUE, Undefined)
    /\ beforeAdd' = NoSnapshot
    /\ UNCHANGED <<conv, localStore, backend, searchKeyword, topK, tableList, inflight>>

\* handleDownload after its await, the export failed
downloadRejected ==
    /\ download # <<>>
    /\ download' = <<>>
    /\ lastOp' = Op("downloadRejected", TRUE, Undefined)
    /\ beforeAdd' = NoSnapshot
    /\ UNCHANGED <<conv, store, localStore, backend, searchKeyword, topK, tableList,
                   selectedTables, inflight>>

\* a call of the storage module's updateTableOrder(orderArray)
reorder(orderArray) ==
    /\ store' = updateTableOrder(store, orderArray)
    /\ lastOp' = Op("updateTableOrder", TRUE, "true")
    /\ beforeAdd' = NoSnapshot
    /\ UNCHANGED <<conv, localStore, backend, searchKeyword, topK, tableList, selectedTables,
                   inflight, download>>

\* The selection store: the operations of the view on the selection and the
\* searches and page loads that reconcile it, with one keyword, the default
\* result count and one search request in flight at a time.
Next ==
    \/ SetKeyword("a")
    \/ (inflight = <<>> /\ handleSearch)
    \/ \E i \in 1..Len(inflight) : \E response \in Replies(inflight[i]) :
           searchResolved(i, response)
    \/ \E i \in 1..Len(inflight) : searchRejected(i)
    \/ \E tableId \in TableIds : addToSelected(tableId)
    \/ \E index \in -1..MaxSel : removeSelectedByIndex(index)
    \/ \E from, to \in 0..(MaxSel - 1) : onDragEnd(from, to)
    \/ clearSelected
    \/ mounted
    \/ \E orderArray \in SeqsUpTo(TableIds, MaxProposal) : reorder(orderArray)

Spec == Init /\ [][Next]_vars

\* Exporting: the operations of the view on the selection, with the export
\* request and its two outcomes.
NextExport ==
    \/ SetKeyword("a")
    \/ (inflight = <<>> /\ handleSearch)
    \/ \E i \in 1..Len(inflight) : \E response \in Replies(inflight[i]) :
           searchResolved(i, response)
    \/ \E tableId \in TableIds : addToSelected(tableId)
    \/ \E index \in 0..(MaxSel - 1) : removeSelectedByIndex(index)
    \/ clearSelected
    \/ mounted
    \/ handleDownload
    \/ downloadResolved
    \/ downloadRejected

SpecExport == Init /\ [][NextExport]_vars

\* Searching: every keyword and result count, and searches issued while
\* earlier ones are still awaiting their response.
NextSearch ==
    \/ \E k \in Keywords : SetKeyword(k)
    \/ \E n \in TopKs : SetTopK(n)
    \/ handleSearch
    \/ \E i \in 1..Len(inflight) : \E response \in Replies(inflight[i]) :
           searchResolved(i, response)
    \/ \E i \in 1..Len(inflight) : searchRejected(i)
    \/ mounted

SpecSearch == Init /\ [][NextSearch]_vars

\* Reconciling: the three records as any earlier use of the storage keys may
\* have left them (the view's own writes, the storage module's addTableId,
\* removeTableId and updateTableOrder, an export), then page loads, searches
\* and clears.
StoredEntry(tableId, n) ==
    [uniqueId |-> <<tableId, n>>, id |-> tableId, similarity |-> "a"]

\* stored entry lists: any ids, pairwise distinct uniqueIds
StoredItemLists ==
    {[j \in 1..Len(ids) |-> StoredEntry(ids[j], j)] :
        ids \in SeqsUpTo(TableIds, MaxSel)}

\* the stored text of a list; an empty list is stored or the key is absent
TextsOf(lists) == {Absent} \cup {Stringify(l) : l \in lists}

InitReconcile ==
    /\ \E idsText \in TextsOf(SeqsUpTo(TableIds, MaxSel)) :
       \E orderText \in TextsOf(SeqsUpTo(TableIds, MaxSel)) :
       \E itemsText \in TextsOf(StoredItemLists) :
           store = [k \in StorageKeys |->
                       IF k = TABLE_IDS_KEY THEN idsText
                       ELSE IF k = TABLE_ORDER_KEY THEN orderText
                       ELSE IF k = SELECTED_TABLES_ITEMS_KEY THEN itemsText
                       ELSE Absent]
    /\ localStore = [k \in StorageKeys |-> Absent]
    /\ backend = "ok"
    /\ searchKeyword = ""
    /\ topK = 10
    /\ tableList = <<>>
    /\ selectedTables = <<>>
    /\ inflight = <<>>
    /\ download = <<>>
    /\ lastOp = Op("data", TRUE, Undefined)
    /\ beforeAdd = NoSnapshot
    /\ conv = NoConversion

NextReconcile ==
    \/ SetKeyword("a")
    \/ (inflight = <<>> /\ handleSearch)
    \/ \E i \in 1..Len(inflight) : \E response \in Replies(inflight[i]) :
           searchResolved(i, response)
    \/ mounted
    \/ clearSelected

SpecReconcile == InitReconcile /\ [][NextReconcile]_vars

\* the browser starts or stops refusing the storage (access denied) or its
\* writes (quota exceeded)
storageTurns(b) ==
    /\ b # backend
    /\ backend' = b
    /\ lastOp' = Op("storage", TRUE, Undefined)
    /\ UNCHANGED <<conv, store, localStore, searchKeyword, topK, tableList,
                   selectedTables, inflight, download, beforeAdd>>

\* The result cache next to the operations on the selection: searches that
\* succeed and fail, adds, removals, reorders, page loads, clears and exports.
NextCache ==
    \/ SetKeyword("a")
    \/ (inflight = <<>> /\ handleSearch)
    \/ \E i \in 1..Len(inflight) : \E response \in Replies(inflight[i]) :
           searchResolved(i, response)
    \/ \E i \in 1..Len(inflight) : searchRejected(i)
    \/ \E tableId \in TableIds : addToSelected(tableId)
    \/ \E index \in 0..(MaxSel - 1) : removeSelectedByIndex(index)
    \/ clearSelected
    \/ mounted
    \/ \E tableId \in TableIds : reorder(<<tableId>>)
    \/ handleDownload
    \/ downloadResolved
    \/ downloadRejected

SpecCache == Init /\ [][NextCache]_vars

\* Failing storage: searches, adds and removals of the view while the browser
\* refuses the storage or its writes.
NextFault ==
    \/ SetKeyword("a")
    \/ (inflight = <<>> /\ handleSearch)
    \/ \E i \in 1..Len(inflight) : \E response \in Replies(inflight[i]) :
           searchResolved(i, response)
    \/ \E tableId \in TableIds : addToSelected(tableId)
    \/ \E index \in -1..MaxSel : removeSelectedByIndex(index)
    \/ \E b \in {"ok", "full", "denied"} : storageTurns(b)

SpecFault == Init /\ [][NextFault]_vars

\* ------------------------------------------------------ the facade alone
StorageType == {"localStorage", "sessionStorage"}

\* keys of the callers of the facade: the result cache and one more
FacadeKeys == {QUERY_RESULT_CACHE_KEY, "draft"}

\* cache entries as handleSearch builds them (timestamp is written there and
\* never read), and as a caller with fewer fields would
CacheEntries ==
    {[keyword |-> "a", topK |-> 10, results |-> <<>>, timestamp |-> 1],
     [keyword |-> "b", topK |-> 1, results |-> <<>>]}

JsValues ==
    {Json(c) : c \in CacheEntries}
    \cup {[class |-> "lossy", value |-> [keyword |-> "a", render |-> "function"]],
          [class |-> "undefined", value |-> [keyword |-> ""]],
          [class |-> "circular", value |-> [keyword |-> ""]]}

\* the default handed to getStorage
Fallback == [keyword |-> "fallback"]

BoolText(b) == IF b THEN "true" ELSE "false"

Storage(type) == IF type = "localStorage" THEN localStore ELSE store

\* the storage of that type becomes st
Stored(type, st) ==
    IF type = "localStorage"
    THEN localStore' = st /\ store' = store
    ELSE store' = st /\ localStore' = localStore

\* the log entry of a facade call: with its key, its storage type, the value
\* or default it was given and the text the key held before
Call(name, ret, key, type, value, before) ==
    [op |-> name, done |-> TRUE, ret |-> ret, key |-> key, type |-> type,
     value |-> value, before |-> before]

FacadeFrame ==
    UNCHANGED <<conv, backend, searchKeyword, topK, tableList, selectedTables,
                inflight, download, beforeAdd>>

setStorageCall(key, js, type) ==
    /\ Stored(type, setStorageValue(Storage(type), key, js))
    /\ lastOp' = Call("setStorage", BoolText(setStorageReturns(js)), key, type,
                       js, Absent)
    /\ FacadeFrame

getStorageCall(key, defaultValue, type) ==
    /\ lastOp' = Call("getStorage", getStorage(Storage(type), key, defaultValue),
                       key, type, Json(defaultValue), Absent)
    /\ UNCHANGED <<store, localStore>>
    /\ FacadeFrame

removeStorageCall(key, type) ==
    /\ Stored(type, removeStorage(Storage(type), key))
    /\ lastOp' = Call("removeStorage", BoolText(removeStorageReturns), key, type,
                       Json(Fallback), Absent)
    /\ FacadeFrame

clearStorageCall(type) ==
    /\ Stored(type, clearStorage(Storage(type)))
    /\ lastOp' = Call("clearStorage", BoolText(removeStorageReturns), "", type,
                       Json(Fallback), Absent)
    /\ FacadeFrame

hasStorageCall(key, type) ==
    /\ lastOp' = Call("hasStorage", BoolText(hasStorage(Storage(type), key)),
                       key, type, Json(Fallback), Absent)
    /\ UNCHANGED <<store, localStore>>
    /\ FacadeFrame

getAllKeysCall(type) ==
    /\ lastOp' = Call("getAllKeys", getAllKeys(Storage(type)), "", type,
                       Json(Fallback), Absent)
    /\ UNCHANGED <<store, localStore>>
    /\ FacadeFrame

getStorageSizeCall(type) ==
    /\ lastOp' = Call("getStorageSize", getStorageSize(Storage(type)), "", type,
                       Json(Fallback), Absent)
    /\ UNCHANGED <<store, localStore>>
    /\ FacadeFrame

\* this.cacheQueryResult(cacheData)
cacheQueryResultCall(cacheData) ==
    /\ store' = cacheQueryResult(store, cacheData)
    /\ lastOp' = Call("cacheQueryResult", Undefined, QUERY_RESULT_CACHE_KEY,
                       "sessionStorage", Json(cacheData),
                       store[QUERY_RESULT_CACHE_KEY])
    /\ UNCHANGED localStore
    /\ FacadeFrame

InitFacade ==
    /\ store = [k \in FacadeKeys |-> Absent]
    /\ localStore = [k \in FacadeKeys |-> Absent]
    /\ backend = "ok"
    /\ searchKeyword = ""
    /\ topK = 10
    /\ tableList = <<>>
    /\ selectedTables = <<>>
    /\ inflight = <<>>
    /\ download = <<>>
    /\ lastOp = Op("data", TRUE, Undefined)
    /\ beforeAdd = NoSnapshot
    /\ conv = NoConversion

NextFacade ==
    \/ \E key \in FacadeKeys, js \in JsValues, type \in StorageType :
           setStorageCall(key, js, type)
    \/ \E key \in FacadeKeys, type \in StorageType :
           getStorageCall(key, Fallback, type)
    \/ \E key \in FacadeKeys, type \in StorageType : removeStorageCall(key, type)
    \/ \E type \in StorageType : clearStorageCall(type)
    \/ \E key \in FacadeKeys, type \in StorageType : hasStorageCall(key, type)
    \/ \E type \in StorageType : getAllKeysCall(type)
    \/ \E type \in StorageType : getStorageSizeCall(type)
    \/ \E cacheData \in CacheEntries : cacheQueryResultCall(cacheData)
    \/ \E b \in {"ok", "full", "denied"} : storageTurns(b)

SpecFacade == InitFacade /\ [][NextFacade]_vars

\* ------------------------------------------------- the conversion calls
ConversionFrame ==
    UNCHANGED <<store, localStore, backend, searchKeyword, topK, tableList,
                selectedTables, inflight, download, lastOp, beforeAdd>>

xml2htmlCall ==
    /\ conv' = [conv EXCEPT !.fn = "xml2html",
                            !.html = xml2html(conv.xmlString, conv.options),
                            !.lines = <<>>]
    /\ ConversionFrame

xml2htmlFragmentCall ==
    /\ conv' = [conv EXCEPT !.fn = "xml2htmlFragment",
                            !.html = xml2htmlFragment(conv.xmlString, conv.options),
                            !.lines = <<>>]
    /\ ConversionFrame

xml2htmlFormattedCall ==
    /\ conv' = [conv EXCEPT !.fn = "xml2htmlFormatted",
                            !.html = <<>>,
                            !.lines = xml2htmlFormatted(conv.xmlString, conv.options)]
    /\ ConversionFrame

\* any argument and any of the option sets, before the first call
InitTransduce ==
    /\ store = [k \in StorageKeys |-> Absent]
    /\ localStore = [k \in StorageKeys |-> Absent]
    /\ backend = "ok"
    /\ searchKeyword = ""
    /\ topK = 10
    /\ tableList = <<>>
    /\ selectedTables = <<>>
    /\ inflight = <<>>
    /\ download = <<>>
    /\ lastOp = Op("data", TRUE, Undefined)
    /\ beforeAdd = NoSnapshot
    /\ \E xmlString \in XmlStrings, options \in OptionsGiven :
           conv = Conversion(xmlString, options, "none", <<>>, <<>>)

\* The conversion functions alone: each called on the same arguments, in any
\* order.
NextTransduce ==
    \/ xml2htmlCall
    \/ xml2htmlFragmentCall
    \/ xml2htmlFormattedCall

SpecTransduce == InitTransduce /\ [][NextTransduce]_vars

\* ------------------------------------------------- the set-based table ids
\* ids handed to addTableId and removeTableId; "" is a falsy id
ApiIds == TableIds \cup {"t3", ""}

\* the log entry of one call of the set-based functions
ApiCall(name, ret, tableId) ==
    [op |-> name, done |-> ret = "true", ret |-> ret, tableId |-> tableId]

\* an addTableId that never looks the id up
addTableIdAlways(st, tableId) == tableId # ""

\* addTableId(tableId): the boolean it returns
addTableIdReturns(st, tableId) ==
    /\ tableId # ""
    /\ ~Includes(getAllTableIds(st), tableId)

\* addTableId(tableId): the store after the call
addTableIdStore(st, tableId) ==
    IF ~addTableIdReturns(st, tableId) THEN st
    ELSE LET ids == Append(getAllTableIds(st), tableId)
             st1 == setStorage(st, TABLE_IDS_KEY, ids)
             order == Append(getTableOrder(st1), tableId)
         IN  setStorage(st1, TABLE_ORDER_KEY, order)

\* removeTableId(tableId): the boolean it returns
removeTableIdReturns(st, tableId) ==
    /\ tableId # ""
    /\ IndexOf(getAllTableIds(st), tableId) # -1

\* removeTableId(tableId): the store after the call
removeTableIdStore(st, tableId) ==
    IF ~removeTableIdReturns(st, tableId) THEN st
    ELSE LET ids == getAllTableIds(st)
             st1 == setStorage(st, TABLE_IDS_KEY, Splice1(ids, IndexOf(ids, tableId)))
             order == getTableOrder(st1)
             orderIndex == IndexOf(order, tableId)
         IN  IF orderIndex # -1
             THEN setStorage(st1, TABLE_ORDER_KEY, Splice1(order, orderIndex))
             ELSE st1

ApiFrame ==
    UNCHANGED <<conv, localStore, backend, searchKeyword, topK, tableList, selectedTables,
                inflight, download, beforeAdd>>

addTableId(tableId) ==
    /\ store' = addTableIdStore(store, tableId)
    /\ lastOp' = ApiCall("addTableId", BoolText(addTableIdReturns(store, tableId)),
                         tableId)
    /\ ApiFrame

removeTableId(tableId) ==
    /\ store' = removeTableIdStore(store, tableId)
    /\ lastOp' = ApiCall("removeTableId",
                         BoolText(removeTableIdReturns(store, tableId)), tableId)
    /\ ApiFrame

\* The set-based functions alone, from empty records, on a storage that can
\* fill up or go out of reach between two calls.
NextSetApi ==
    \/ \E tableId \in ApiIds : addTableId(tableId)
    \/ \E tableId \in ApiIds : removeTableId(tableId)
    \/ \E b \in {"ok", "full", "denied"} : storageTurns(b)

SpecSetApi == Init /\ [][NextSetApi]_vars

\* ------------------------------------------------- the records, as read
idList == getAllTableIds(store)

orderList == getTableOrder(store)

itemList == getStoredItems(store)

\* the three records and the snapshot agree
Consistent(rec) ==
    /\ rec.selected = rec.items
    /\ rec.order = IdsOf(rec.items)
    /\ SameMultiset(rec.ids, rec.order)

\* ------------------------------------------------------------------ C1
\* C1: after any sequence of add, removeAt, reorder and reconcile calls the
\* persisted orderList and itemList have the same length and the same
\* multiset of ids.
C1_SelectionInvariant ==
    /\ Len(orderList) = Len(itemList)
    /\ SameMultiset(orderList, IdsOf(itemList))

\* ------------------------------------------------------------------ C2
\* C2: from a consistent state, add(resultId) for a resultId in the current
\* results followed immediately by removeAt(last index) leaves idList,
\* orderList and itemList equal to their value before the add.
C2_AddThenRemoveLastRestores ==
    [][(/\ lastOp.op = "addToSelected"
        /\ lastOp.done
        /\ beforeAdd.valid
        /\ Consistent(beforeAdd)
        /\ removeSelectedByIndex(Len(selectedTables) - 1))
       => (/\ idList' = beforeAdd.ids
           /\ orderList' = beforeAdd.order
           /\ itemList' = beforeAdd.items)]_vars

\* ------------------------------------------------------------------ C3
\* one occurrence of x removed from s, the rest in place
RemovedOne(s, t, x) ==
    \E i \in 1..Len(s) : s[i] = x /\ t = Splice1(s, i - 1)

\* C3: removeAt(position) with an in-range position removes exactly the entry
\* at that position from itemList, exactly the position-th element from
\* orderList and exactly one occurrence of the entry's id from idList.
C3_RemoveAtRemovesExactlyOne ==
    [][\A index \in 0..(MaxSel - 1) :
          (index < Len(selectedTables) /\ removeSelectedByIndex(index))
          => (/\ itemList' = Splice1(itemList, index)
              /\ orderList' = Splice1(orderList, index)
              /\ RemovedOne(idList, idList', selectedTables[index + 1].id))]_vars

\* ------------------------------------------------------------------ C4
\* C4: after a successful export idList, orderList and itemList are all empty
\* in storage, so a following reconcile() produces an empty selection.
C4_ExportClearsAllRecords ==
    lastOp.op = "downloadResolved"
    => (/\ idList = <<>>
        /\ orderList = <<>>
        /\ itemList = <<>>
        /\ syncSelectedTableIds(store, tableList).selectedTables = <<>>)

\* ------------------------------------------------------------------ C5
\* the steps that end with a run of syncSelectedTableIds
Reconciled == lastOp.op \in {"searchResolved", "mounted"}

\* C5: whatever the three records held, after reconcile() the persisted
\* orderList and itemList have equal length and equal id multisets, and the
\* in-memory snapshot has that same id sequence.
C5_ReconcileRestoresInvariant ==
    Reconciled
    => (/\ Len(orderList) = Len(itemList)
        /\ SameMultiset(orderList, IdsOf(itemList))
        /\ IdsOf(selectedTables) = orderList)

\* ------------------------------------------------------------------ C6
cacheText == store[QUERY_RESULT_CACHE_KEY]

\* C6: when a search is superseded by a newer one whose response has arrived,
\* the older response is discarded when it arrives: the current result list
\* and the result cache keep the newer search's results.
C6_StaleResponseDiscarded ==
    [][\A i \in 1..Len(inflight) : \A response \in Replies(inflight[i]) :
          (inflight[i].superseded /\ searchResolved(i, response))
          => (tableList' = tableList /\ cacheText' = cacheText)]_vars

\* ------------------------------------------------------------------ C7
\* C7: in every selection snapshot no two entries have the same uniqueId.
C7_UniqueIdsDistinct ==
    \A i, j \in 1..Len(selectedTables) :
        i # j => selectedTables[i].uniqueId # selectedTables[j].uniqueId

\* ------------------------------------------------------------------ C8
\* the selection is n entries of tableId with pairwise distinct uniqueIds, in
\* the snapshot and in each of the three records
Copies(n, tableId) ==
    /\ Len(selectedTables) = n
    /\ \A i \in 1..n : selectedTables[i].id = tableId
    /\ C7_UniqueIdsDistinct
    /\ itemList = selectedTables
    /\ idList = [i \in 1..n |-> tableId]
    /\ orderList = [i \in 1..n |-> tableId]

\* C8: adding the same resultId n times yields n entries with that id and
\* distinct uniqueIds and n occurrences in idList and orderList (each add takes
\* k copies to k + 1, from the empty selection on); removeAt(0) then leaves
\* exactly n - 1 entries with that id in each of the three records.
C8_DuplicateAdds ==
    [][\A tableId \in TableIds : \A n \in 0..MaxSel :
          /\ (/\ Copies(n, tableId)
              /\ Includes(IdsOf(tableList), tableId)
              /\ addToSelected(tableId))
             => Copies(n + 1, tableId)'
          /\ (/\ n >= 1
              /\ Copies(n, tableId)
              /\ removeSelectedByIndex(0))
             => (/\ Count(IdsOf(itemList'), tableId) = n - 1
                 /\ Count(idList', tableId) = n - 1
                 /\ Count(orderList', tableId) = n - 1)]_vars

\* ------------------------------------------------------------------ C9
\* the elements of s that are in S, in the order of s
RECURSIVE Keep(_, _)
Keep(s, S) ==
    IF s = <<>> THEN <<>>
    ELSE IF Head(s) \in S THEN <<Head(s)>> \o Keep(Tail(s), S)
    ELSE Keep(Tail(s), S)

Proposals == SeqsUpTo(TableIds, MaxProposal)

NoOpReturning(ret) ==
    /\ lastOp'.ret = ret
    /\ store' = store
    /\ selectedTables' = selectedTables

LookupFailures(ret) ==
    /\ \A tableId \in TableIds :
          (/\ lastOp'.op = "addToSelected"
           /\ ~Includes(IdsOf(tableList), tableId)
           /\ addToSelected(tableId))
          => NoOpReturning(ret)
    /\ \A index \in -1..MaxSel :
          (/\ lastOp'.op = "removeSelectedByIndex"
           /\ (index < 0 \/ index >= Len(selectedTables))
           /\ removeSelectedByIndex(index))
          => NoOpReturning(ret)

Reconciles == lastOp'.op \in {"searchResolved", "mounted"}

\* C11: reconcile() with a non-empty itemList whose length differs from
\* orderList's takes itemList verbatim as the selection and leaves orderList
\* and idList equal to the id sequence of itemList, whatever they held before.
C11_MismatchTrustsItemList ==
    [][(/\ Reconciles
        /\ Len(itemList) > 0
        /\ Len(itemList) # Len(orderList))
       => (/\ selectedTables' = itemList
           /\ orderList' = IdsOf(itemList)
           /\ idList' = IdsOf(itemList))]_vars

\* ----------------------------------------------------------------- C12
EntriesWith(items, id) == SelectSeq(items, LAMBDA it : it.id = id)

\* slot i of order is the m-th slot carrying its id
Occurrence(order, i) == Cardinality({j \in 1..i : order[j] = order[i]})

\* the entry slot i is bound to: the m-th entry with its id, the first entry
\* with its id when fewer than m entries carry it
Bound(order, items, i) ==
    LET e == EntriesWith(items, order[i])
        m == Occurrence(order, i)
    IN  IF m <= Len(e) THEN e[m] ELSE e[1]

\* the slots of order whose id some entry carries, in order
SlotsWithEntry(order, items) ==
    SelectSeq([i \in 1..Len(order) |-> i],
              LAMBDA i : Len(EntriesWith(items, order[i])) > 0)

EqualLength == Len(itemList) > 0 /\ Len(itemList) = Len(orderList)

\* C12 as stated: with a non-empty itemList as long as orderList, reconcile()
\* binds each slot of orderList, left to right, to the first entry with that id
\* not bound to an earlier slot, or to the first entry with that id when all
\* are bound; no slot is dropped.
C12_EverySlotBound ==
    [][(Reconciles /\ EqualLength)
       => (/\ Len(selectedTables') = Len(orderList)
           /\ \A i \in 1..Len(orderList) :
                 /\ Len(EntriesWith(itemList, orderList[i])) > 0
                 /\ selectedTables'[i] = Bound(orderList, itemList, i))]_vars

\* C12 amended: each slot whose id some entry of itemList carries is bound as
\* stated; a slot whose id no entry carries is dropped, so the selection has
\* one entry per orderList element whose id occurs in itemList; the three
\* records are left as they were.
C12_SlotsWithEntryBound ==
    [][(Reconciles /\ EqualLength)
       => (LET slots == SlotsWithEntry(orderList, itemList)
           IN  /\ selectedTables' =
                      [k \in 1..Len(slots) |-> Bound(orderList, itemList, slots[k])]
               /\ orderList' = orderList
               /\ itemList' = itemList
               /\ idList' = idList)]_vars

\* a reconcile has run on records of equal length 2 (this branch writes
\* nothing, so they are the records it read) and dropped one slot
C12_Witness ==
    /\ lastOp.op \in {"searchResolved", "mounted"}
    /\ Len(itemList) = 2
    /\ Len(orderList) = 2
    /\ Len(selectedTables) = 1

\* ----------------------------------------------------------------- C13
OrderOnly == Len(itemList) = 0 /\ Len(orderList) > 0

UniqueIdsOf(items) == {items[i].uniqueId : i \in 1..Len(items)}

C14_ClearEmptiesAll ==
    lastOp.op = "clearSelected"
    => (/\ Raw(store, TABLE_IDS_KEY) = <<>>
        /\ Raw(store, TABLE_ORDER_KEY) = <<>>
        /\ Raw(store, SELECTED_TABLES_ITEMS_KEY) = <<>>
        /\ selectedTables = <<>>)

\* a clear has run while search results were on display
C14_Witness ==
    /\ lastOp.op = "clearSelected"
    /\ tableList # <<>>

\* ----------------------------------------------------------------- C15
\* the storage a logged call worked on, and whether its text for the call's
\* key is there but no JSON text
StorageOf(call) == Storage(call.type)

Unparseable(call) ==
    StorageOf(call)[call.key] # Absent /\ ~Parseable(StorageOf(call)[call.key])

\* every facade call whose storage access fails, or whose value is of one of
\* the classes unserializable, returns its fallback
FacadeFallbacks(unserializable) ==
    LET call == lastOp'
    IN  /\ (/\ call.op = "getStorage"
             /\ (~getStorageInstance \/ Unparseable(call)))
            => call.ret = call.value.value
        /\ (/\ call.op = "setStorage"
             /\ \/ ~getStorageInstance
                \/ backend = "full"
                \/ call.value.class \in unserializable)
            => call.ret = "false"
        /\ (call.op \in {"removeStorage", "clearStorage", "hasStorage"}
             /\ ~getStorageInstance)
            => call.ret = "false"
        /\ (call.op = "getAllKeys" /\ ~getStorageInstance) => call.ret = {}
        /\ (call.op = "getStorageSize" /\ ~getStorageInstance) => call.ret = 0

load == getStorage(store, QUERY_RESULT_CACHE_KEY, Fallback)

C16_OptimisticInMemory ==
    [][/\ \A tableId \in TableIds :
             (/\ lastOp'.op = "addToSelected"
              /\ ~getStorageInstance
              /\ Includes(IdsOf(tableList), tableId)
              /\ addToSelected(tableId))
             => (/\ Len(selectedTables') = Len(selectedTables) + 1
                 /\ SubSeq(selectedTables', 1, Len(selectedTables)) = selectedTables
                 /\ selectedTables'[Len(selectedTables')].id = tableId
                 /\ lastOp'.done)
       /\ \A index \in 0..(MaxSel - 1) :
             (/\ lastOp'.op = "removeSelectedByIndex"
              /\ ~getStorageInstance
              /\ index < Len(selectedTables)
              /\ removeSelectedByIndex(index))
             => (selectedTables' = Splice1(selectedTables, index) /\ lastOp'.done)
      ]_vars

\* entries were added while the storage was out of reach: the selection holds
\* them and the stored list does not
C16_Witness ==
    /\ lastOp.op = "addToSelected"
    /\ lastOp.done
    /\ backend = "denied"
    /\ Len(selectedTables) = 2
    /\ Raw(store, SELECTED_TABLES_ITEMS_KEY) = <<>>

\* ----------------------------------------------------------------- C18
\* the keyword and result count the cache entry carries, if there is one
CachedQuery ==
    IF cacheText = Absent THEN <<FALSE, "", 0>>
    ELSE <<TRUE, Parse(cacheText).keyword, Parse(cacheText).topK>>

\* C18: the cached keyword and topK are at every moment those of the last
\* successful search, the one that produced the cached result list: a search
\* that succeeds caches the keyword and result count it was sent with, and no
\* other step changes them.
C18_CacheKeepsLastSearch ==
    [][/\ \A i \in 1..Len(inflight) : \A response \in Replies(inflight[i]) :
             (lastOp'.op = "searchResolved" /\ searchResolved(i, response))
             => CachedQuery' = <<TRUE, inflight[i].query, inflight[i].top_k>>
       /\ (CachedQuery' # CachedQuery) => lastOp'.op = "searchResolved"]_vars

\* ----------------------------------------------------------------- C19
\* the result list the cache entry carries, if there is one
CachedResults ==
    IF cacheText = Absent THEN <<FALSE, <<>>>>
    ELSE <<TRUE, Parse(cacheText).results>>

\* C19: the cached result list is removed or changed only in a step that
\* clears the selection or completes a successful search: add, removeAt,
\* reorder, reconcile, export and a failed search leave it unchanged.
C19_CachedResultsFrame ==
    [][(CachedResults' # CachedResults)
       => lastOp'.op \in {"searchResolved", "clearSelected"}]_vars

\* an export has succeeded while the cache held a non-empty result list
C19_Witness ==
    /\ lastOp.op = "downloadResolved"
    /\ CachedResults[1]
    /\ CachedResults[2] # <<>>

\* ----------------------------------------------------------------- C25
\* every id occurs in s at most as often as in t
SubMultiset(s, t) == \A x \in Range(s) : Count(s, x) <= Count(t, x)

\* C25: once removeAt has removed an entry, its id does not come back into the
\* selection through a later reconcile() unless add is called again: a page
\* load or search result that directly follows a removal selects no id beyond
\* those the removal left selected.
C25_RemovedIdStaysOut ==
    [][(/\ lastOp.op = "removeSelectedByIndex"
        /\ lastOp.done
        /\ Reconciles)
       => SubMultiset(IdsOf(selectedTables'), IdsOf(selectedTables))]_vars

\* ----------------------------------------------------------------- C26
\* C26: every entry a successful export clears from the in-memory selection
\* was in the id list sent to the export endpoint, also when add or removeAt
\* ran while the request was in flight.
C26_ExportClearsOnlyExported ==
    [][(lastOp'.op = "downloadResolved" /\ download # <<>> /\ downloadResolved)
       => SubMultiset(IdsOf(selectedTables), download[1])]_vars

\* ----------------------------------------------------------------- C27
\* C27: reconcile() is idempotent: whatever the three records hold, with the
\* result list fixed, a second reconcile() in a row leaves the records and the
\* id sequence of the snapshot as the first left them (two page loads in a
\* row with no cached results: each is one reconcile on an empty result list).
C27_ReconcileIdempotent ==
    [][(/\ lastOp.op = "mounted"
        /\ lastOp'.op = "mounted"
        /\ ~hasCache(store)
        /\ mounted)
       => (/\ idList' = idList
           /\ orderList' = orderList
           /\ itemList' = itemList
           /\ IdsOf(selectedTables') = IdsOf(selectedTables))]_vars

\* ----------------------------------------------------------------- C28
\* C28: for every proposal (repeated, missing or unknown ids included) and
\* every membership (duplicate ids included), reorder(proposal) leaves
\* orderList with the same length and the same id multiset as idList.
C28_ReorderKeepsMembership ==
    [][\A proposal \in Proposals :
          (lastOp'.op = "updateTableOrder" /\ setStorageOk /\ reorder(proposal))
          => (/\ Len(orderList') = Len(idList')
              /\ SameMultiset(orderList', idList'))]_vars

\* ----------------------------------------------------------------- C29
NoDuplicate(s) == \A i, j \in 1..Len(s) : s[i] = s[j] => i = j

\* C29: in the set-based API, addTableId with an id that idList already holds
\* returns false and changes nothing, and after any sequence of addTableId and
\* removeTableId calls from empty records idList has no duplicate and
\* orderList is a permutation of idList.
C29_SetApiKeepsSet ==
    [][/\ \A tableId \in ApiIds :
            (/\ lastOp'.op = "addTableId"
             /\ Includes(idList, tableId)
             /\ addTableId(tableId))
            => (lastOp'.ret = "false" /\ store' = store)
       /\ NoDuplicate(idList')
       /\ Len(orderList') = Len(idList')
       /\ SameMultiset(orderList', idList')]_vars

\* a refused addTableId of an id the full idList holds
C29_Witness ==
    /\ lastOp.op = "addTableId"
    /\ lastOp.ret = "false"
    /\ Includes(idList, lastOp.tableId)
    /\ Len(idList) = 3
    /\ idList # <<"t1", "t2", "t3">>

\* ----------------------------------------------------------------- C21
\* the argument is not a string, is empty or blank, or fails to parse: the
\* parser throws or reports an error node
Rejected(xmlString) ==
    \/ xmlString.kind # "text"
    \/ xmlString.parser = "throws"
    \/ ~xmlString.wellFormed

\* C21: transduce and transduceFragment return the empty string, wrapper tag
\* included in nothing, whenever the input is empty, whitespace-only, not a
\* string, or fails to parse.
C21_RejectedInputGivesEmpty ==
    (conv.fn \in {"xml2html", "xml2htmlFragment"} /\ Rejected(conv.xmlString))
    => conv.html = <<>>

\* text that is not well formed, converted with a wrapper tag asked for
C21_Witness ==
    /\ conv.fn = "xml2html"
    /\ conv.xmlString.kind = "text"
    /\ conv.xmlString.parser = "returns"
    /\ ~conv.xmlString.wellFormed
    /\ conv.options.wrapperTag = "div"
    /\ conv.html = <<>>

\* ----------------------------------------------------------------- C22
\* one of the five characters, put into the output as it is
RawSpecial(atom) == atom.t = "chr" /\ atom.v \in SpecialChars

\* C22 as stated: for every well-formed XML input the output of transduce
\* holds none of the characters < > & " ' outside the markup the transducer
\* emits.
C22_NoRawSpecial ==
    (conv.fn = "xml2html" /\ conv.xmlString.wellFormed)
    => \A i \in 1..Len(conv.html) : ~RawSpecial(conv.html[i])

RECURSIVE TextOfNodes(_, _)
RECURSIVE TextOfChildren(_, _, _)
TextOfChildren(childNodes, nodeType, i) ==
    IF i > Len(childNodes) THEN <<>>
    ELSE TextOfNodes(childNodes[i], nodeType)
             \o TextOfChildren(childNodes, nodeType, i + 1)

\* the text of the nodes of that type in and under the node, in document order
TextOfNodes(node, nodeType) ==
    (IF node.nodeType = nodeType THEN node.textContent ELSE <<>>)
        \o TextOfChildren(node.childNodes, nodeType, 1)

\* the characters the output holds from that part of the input
OutputFrom(html, from) ==
    LET atoms == SelectSeq(html, LAMBDA atom : atom.from = from)
    IN  [i \in 1..Len(atoms) |-> atoms[i].v]

\* C22, amended: in the output of transduce for a well-formed input none of
\* the five characters comes from a text node or an attribute value, and the
\* content of the CDATA sections and of the comments of a document the
\* parser accepts is in the output as it is in the input.
C22_TextAndAttributesEscaped ==
    (conv.fn = "xml2html" /\ conv.xmlString.wellFormed)
    => /\ \A i \in 1..Len(conv.html) :
              conv.html[i].from \in {"text", "attribute"} => ~RawSpecial(conv.html[i])
       /\ parseXML(conv.xmlString) # Null
              => /\ OutputFrom(conv.html, "cdata")
                        = TextOfNodes(conv.xmlString.doc, "cdata")
                 /\ OutputFrom(conv.html, "comment")
                        = TextOfNodes(conv.xmlString.doc, "comment")

\* an escaped text node, an escaped attribute value and a CDATA section with
\* a "<" in one output
C22_Witness ==
    /\ conv.fn = "xml2html"
    /\ conv.xmlString.wellFormed
    /\ \E i \in 1..Len(conv.html) :
           conv.html[i] = Atom("ent", "lt", "text")
    /\ \E i \in 1..Len(conv.html) :
           conv.html[i] = Atom("ent", "quot", "attribute")
    /\ \E i \in 1..Len(conv.html) :
           conv.html[i] = Atom("chr", "<", "cdata")

\* ----------------------------------------------------------------- C23
RECURSIVE ElementsIn(_)
\* the element nodes in and under the node
ElementsIn(node) ==
    (IF node.nodeType = "element" THEN {node} ELSE {})
        \cup UNION {ElementsIn(node.childNodes[i]) : i \in 1..Len(node.childNodes)}

\* the piece is part of the string, in one run
Within(html, piece) ==
    \E k \in 0..(Len(html) - Len(piece)) : SubSeq(html, k + 1, k + Len(piece)) = piece

\* the markup of the element's children, under the call's options
MarkupOfChildren(element) == childrenToHtml(element.childNodes, conv.options, 1)

\* the element's mapped name is self-closing and its children gave no markup
ClosesItself(element) ==
    /\ htmlTagName(element, conv.options) \in selfClosingTags
    /\ MarkupOfChildren(element) = <<>>

\* what the output holds for the element
MarkupOf(element) == nodeToHtml(element, conv.options)

\* the element is in the output as its tag ending in " />", no close tag
EmittedSelfClosed(element) ==
    LET markup == MarkupOf(element)
    IN  /\ Within(conv.html, markup)
        /\ markup = TagStart(element, conv.options) \o <<Atom("selfend", " />", "tag")>>
        /\ \A i \in 1..Len(markup) : markup[i].t # "close"

\* the element is in the output as open tag, children's markup, close tag
EmittedAsPair(element) ==
    LET markup == MarkupOf(element)
    IN  /\ Within(conv.html, markup)
        /\ markup = TagStart(element, conv.options)
                        \o <<Atom("gt", ">", "tag")>>
                        \o MarkupOfChildren(element)
                        \o <<Atom("close", htmlTagName(element, conv.options), "tag")>>

\* C23: an element is emitted as a self-closed tag ending in "/>" with no
\* close tag exactly when its mapped tag name is in the self-closing set and
\* its children produced no markup; every other element is emitted as open
\* tag, children's markup and matching close tag, also when it has no child.
C23_SelfClosedExactlyWhenEmpty ==
    (conv.fn = "xml2html" /\ parseXML(conv.xmlString) # Null)
    => \A element \in ElementsIn(conv.xmlString.doc) :
           IF ClosesItself(element)
           THEN EmittedSelfClosed(element) /\ ~EmittedAsPair(element)
           ELSE EmittedAsPair(element) /\ ~EmittedSelfClosed(element)

\* one output with a self-closed element that has a child node, and an
\* element without child nodes emitted as a pair
C23_Witness ==
    /\ conv.fn = "xml2html"
    /\ parseXML(conv.xmlString) # Null
    /\ \E element \in ElementsIn(conv.xmlString.doc) :
           /\ element.childNodes # <<>>
           /\ EmittedSelfClosed(element)
    /\ \E element \in ElementsIn(conv.xmlString.doc) :
           /\ element.childNodes = <<>>
           /\ EmittedAsPair(element)

\* ----------------------------------------------------------------- C24
\* the open tag and the close tag of an element emitted as a pair
OpenTag(element) == TagStart(element, conv.options) \o <<Atom("gt", ">", "tag")>>

CloseTag(element) == <<Atom("close", htmlTagName(element, conv.options), "tag")>>

\* C24 as stated: for every single-root XML document x and the same options
\* without a wrapperTag, transduce(x) is the root's open tag, then
\* transduceFragment(x), then the root's close tag.
C24_FragmentIsInside ==
    (/\ conv.fn = "xml2htmlFragment"
     /\ conv.xmlString.wellFormed
     /\ conv.options.wrapperTag = "")
    => xml2html(conv.xmlString, conv.options)
           = OpenTag(conv.xmlString.doc) \o conv.html \o CloseTag(conv.xmlString.doc)

\* C24, amended: for a single-root document the parser accepts, without a
\* wrapperTag, transduce(x) is the root's open tag, transduceFragment(x) and
\* the root's close tag when the root is emitted as a pair; when the root is
\* emitted self-closed, transduce(x) is that one tag and transduceFragment(x)
\* is empty; for a document with a parsererror element both are empty.
C24_FragmentIsInsideOfPair ==
    (/\ conv.fn = "xml2htmlFragment"
     /\ conv.xmlString.wellFormed
     /\ conv.options.wrapperTag = "")
    => LET root == conv.xmlString.doc
           html == xml2html(conv.xmlString, conv.options)
       IN  IF parseXML(conv.xmlString) = Null
           THEN html = <<>> /\ conv.html = <<>>
           ELSE IF ClosesItself(root)
           THEN /\ html = TagStart(root, conv.options)
                               \o <<Atom("selfend", " />", "tag")>>
                /\ conv.html = <<>>
           ELSE html = OpenTag(root) \o conv.html \o CloseTag(root)

\* the fragment of a root with two children that both give markup
C24_Witness ==
    /\ conv.fn = "xml2htmlFragment"
    /\ conv.xmlString.wellFormed
    /\ conv.options.wrapperTag = ""
    /\ parseXML(conv.xmlString) # Null
    /\ Len(conv.xmlString.doc.childNodes) = 2
    /\ \A i \in 1..2 :
           nodeToHtml(conv.xmlString.doc.childNodes[i], conv.options) # <<>>
    /\ conv.html # <<>>

\* ----------------------------------------------------------------- C30
RECURSIVE Joined(_)
\* the pieces of all lines, in order
Joined(lines) ==
    IF lines = <<>> THEN <<>> ELSE Head(lines).atoms \o Joined(Tail(lines))

\* the position in Joined(lines) of the first piece of line i
FirstOf(lines, i) == Len(Joined(SubSeq(lines, 1, i - 1))) + 1

\* the line that holds piece k of Joined(lines)
LineOf(lines, k) ==
    CHOOSE i \in 1..Len(lines) :
        FirstOf(lines, i) <= k /\ k < FirstOf(lines, i) + Len(lines[i].atoms)

\* piece k starts an opening tag: a tag that ends with ">", not with " />"
IsOpeningTag(html, k) ==
    /\ html[k].t = "open"
    /\ \E j \in (k + 1)..Len(html) :
           /\ html[j].t = "gt"
           /\ \A m \in (k + 1)..(j - 1) : html[m].t \notin {"gt", "selfend"}

IsClosingTag(html, k) == html[k].t = "close"

\* the opening tag that the closing tag at k closes: the nearest one before
\* it with as many opening as closing tags in between
MatchingOpen(html, k) ==
    CHOOSE i \in 1..(k - 1) :
        /\ IsOpeningTag(html, i)
        /\ Cardinality({m \in (i + 1)..(k - 1) : IsOpeningTag(html, m)})
               = Cardinality({m \in (i + 1)..(k - 1) : IsClosingTag(html, m)})
        /\ \A j \in (i + 1)..(k - 1) :
               ~(/\ IsOpeningTag(html, j)
                 /\ Cardinality({m \in (j + 1)..(k - 1) : IsOpeningTag(html, m)})
                        = Cardinality({m \in (j + 1)..(k - 1) : IsClosingTag(html, m)}))

\* the line begins with a closing tag
BeginsWithClosingTag(line) == StartsWith(Trim(Flat(line.atoms)), <<"<", "/">>)

\* line i is indented as the line that carries its matching opening tag
IndentedAsOpening(lines, i) ==
    LET html == Joined(lines)
    IN  lines[i].level = lines[LineOf(lines, MatchingOpen(html, FirstOf(lines, i)))].level

\* C30 as stated: in the formatter's output for any transducer result the
\* nesting depth is never negative and every line that begins with a closing
\* tag is indented as the line that carries its matching opening tag.
C30_ClosingIndentedAsOpening ==
    conv.fn = "xml2htmlFormatted"
    => \A i \in 1..Len(conv.lines) :
           /\ conv.lines[i].level >= 0
           /\ BeginsWithClosingTag(conv.lines[i]) => IndentedAsOpening(conv.lines, i)

\* the line is one tag and nothing else: no text, CDATA content or comment
SingleTag(line) ==
    /\ Cardinality({k \in 1..Len(line.atoms) : line.atoms[k].t \in {"open", "close"}}) = 1
    /\ \A k \in 1..Len(line.atoms) : line.atoms[k].from \in {"tag", "attribute"}
    /\ \A k \in 1..Len(line.atoms) : line.atoms[k].t # "cmtopen"

\* C30, amended: in the formatter's output for any transducer result the
\* nesting depth is never negative, and when every line of the output is a
\* single tag, every line that begins with a closing tag is indented as the
\* line that carries its matching opening tag.
C30_SingleTagLinesIndentedAsOpening ==
    conv.fn = "xml2htmlFormatted"
    => /\ \A i \in 1..Len(conv.lines) : conv.lines[i].level >= 0
       /\ (\A i \in 1..Len(conv.lines) : SingleTag(conv.lines[i]))
              => \A i \in 1..Len(conv.lines) :
                     BeginsWithClosingTag(conv.lines[i])
                         => IndentedAsOpening(conv.lines, i)

\* single-tag lines nested two deep around a self-closed tag
C30_Witness ==
    /\ conv.fn = "xml2htmlFormatted"
    /\ \A i \in 1..Len(conv.lines) : SingleTag(conv.lines[i])
    /\ \E i \in 1..Len(conv.lines) :
           /\ BeginsWithClosingTag(conv.lines[i])
           /\ conv.lines[i].level = 1
           /\ IndentedAsOpening(conv.lines, i)
    /\ \E i \in 1..Len(conv.lines) :
           /\ conv.lines[i].level = 2
           /\ conv.lines[i].atoms[Len(conv.lines[i].atoms)].t = "selfend"

====
